---- MODULE Spec2Model ----
(***************************************************************************)
(* Model of send_question.py: one run of the Telegram MCQ bot.  A run      *)
(* validates its configuration, checks the IST time window, fetches one    *)
(* question, sends it (direct poll, or question text + generic poll),      *)
(* sends the explanation, and ends with the promotional message.           *)
(*                                                                         *)
(* Text is modelled exactly, in run-length form: a string is a sequence of *)
(* segments [c, n].  When c is a one-character string the segment is that  *)
(* character repeated n times; when c is the tag of one of the program's   *)
(* fixed literals the segment is the first n characters of that literal.   *)
(* Adjacent runs of the same character are merged and no segment is empty, *)
(* so two strings are equal exactly when their representations are.        *)
(***************************************************************************)
EXTENDS Integers, Sequences, FiniteSets, TLC

\* ---------------------------------------------------------------- limits

TELEGRAM_MESSAGE_LIMIT == 4096
TELEGRAM_POLL_QUESTION_LIMIT == 300
TELEGRAM_POLL_OPTION_LIMIT == 100

\* ------------------------------------------------------------------ text

\* The program's fixed literals, by tag, with their length in characters
\* (Python's len, i.e. code points).
ELLIPSIS == "<...>"
EXPLANATION_MARKER == "<\\n\\n... (explanation truncated)>"
QUESTION_MARKER == "<\\n\\n... (question truncated)>"
EXPLANATION_PREFIX == "<explanation header\\n>"
QUESTION_PREFIX == "<question header\\n>"
POLL_QUESTION == "<choose the correct option:>"
OPTION_WORD == "<Option >"
PROMO_HEAD == "<promo copy>"
PROMO_QUOTE_OPEN == "<\\n\\n(bulb) <i>\">"
PROMO_QUOTE_CLOSE == "<\"</i>>"
PROMO_TAGS == "<\\n\\n<i>#GPSC #GSSSB #Talati #CurrentAffairs</i>>"

Literals ==
    { ELLIPSIS, EXPLANATION_MARKER, QUESTION_MARKER, EXPLANATION_PREFIX,
      QUESTION_PREFIX, POLL_QUESTION, OPTION_WORD, PROMO_HEAD,
      PROMO_QUOTE_OPEN, PROMO_QUOTE_CLOSE, PROMO_TAGS }

LitLen(tag) ==
    CASE tag = ELLIPSIS           -> 3
      [] tag = EXPLANATION_MARKER -> 38
      [] tag = QUESTION_MARKER    -> 41
      [] tag = EXPLANATION_PREFIX -> 17
      [] tag = QUESTION_PREFIX    -> 17
      [] tag = POLL_QUESTION      -> 22
      [] tag = OPTION_WORD        -> 7
      [] tag = PROMO_HEAD         -> 145
      [] tag = PROMO_QUOTE_OPEN   -> 8
      [] tag = PROMO_QUOTE_CLOSE  -> 5
      [] tag = PROMO_TAGS         -> 45

\* n copies of the character c.
Run(c, n) == IF n <= 0 THEN << >> ELSE << [c |-> c, n |-> n] >>

\* The literal with this tag.
Lit(tag) == << [c |-> tag, n |-> LitLen(tag)] >>

\* Python's len(s).
RECURSIVE StrLen(_)
StrLen(s) == IF s = << >> THEN 0 ELSE Head(s).n + StrLen(Tail(s))

\* Python's s + t.
Concat(s, t) ==
    IF s = << >> THEN t
    ELSE IF t = << >> THEN s
    ELSE LET a == s[Len(s)]
             b == t[1]
         IN IF a.c = b.c /\ a.c \notin Literals
            THEN SubSeq(s, 1, Len(s) - 1)
                   \o << [c |-> a.c, n |-> a.n + b.n] >>
                   \o Tail(t)
            ELSE s \o t

\* Python's s[:k] for k >= 0.
RECURSIVE Slice(_, _)
Slice(s, k) ==
    IF s = << >> \/ k <= 0 THEN << >>
    ELSE IF Head(s).n <= k
         THEN << Head(s) >> \o Slice(Tail(s), k - Head(s).n)
         ELSE << [c |-> Head(s).c, n |-> k] >>

IsSpace(c) == c = " "

RECURSIVE LStrip(_)
LStrip(s) ==
    IF s = << >> THEN s
    ELSE IF IsSpace(Head(s).c) THEN LStrip(Tail(s)) ELSE s

RECURSIVE RStrip(_)
RStrip(s) ==
    IF s = << >> THEN s
    ELSE IF IsSpace(s[Len(s)].c) THEN RStrip(SubSeq(s, 1, Len(s) - 1)) ELSE s

\* Python's s.strip().
Strip(s) == RStrip(LStrip(s))

\* The value None.  No string has a segment of length 0.
None == << [c |-> "None", n |-> 0] >>

\* Python's truth value of a string or None.
Truthy(s) == s # << >> /\ s # None

\* ---------------------------------------------------------------- inputs

\* Bounds of the model.
MaxQuotes == 3
MaxRunQuotes == 1

EnvNames == { "APPS_SCRIPT_URL", "TELEGRAM_BOT_TOKEN", "TELEGRAM_CHANNEL_ID" }

\* Hours of the IST clock at which the run may be invoked.
Hours == { 10, 11, 22 }

\* Question texts: empty, blank, short, padded, at the poll limit, over it,
\* over it and blank, at the message limit, over it.
QuestionTexts ==
    { << >>,
      Run(" ", 2),
      Run("q", 19),
      Concat(Run(" ", 1), Concat(Run("q", 19), Run(" ", 2))),
      Run("q", TELEGRAM_POLL_QUESTION_LIMIT),
      Run("q", TELEGRAM_POLL_QUESTION_LIMIT + 1),
      Run(" ", TELEGRAM_POLL_QUESTION_LIMIT + 1),
      Run("q", TELEGRAM_MESSAGE_LIMIT),
      Run("q", TELEGRAM_MESSAGE_LIMIT + 1) }

\* Option texts written with the character ch.
ShortOption(ch) == Run(ch, 9)
PaddedOption(ch) == Concat(Run(" ", 1), Concat(Run(ch, 9), Run(" ", 1)))
LimitOption(ch) == Run(ch, TELEGRAM_POLL_OPTION_LIMIT)
LongOption(ch) == Run(ch, TELEGRAM_POLL_OPTION_LIMIT + 1)
LongPaddedOption(ch) == Concat(Run(" ", 1), Run(ch, TELEGRAM_POLL_OPTION_LIMIT))

OptionsA ==
    { ShortOption("a"), << >>, Run(" ", 1), PaddedOption("a"),
      LimitOption("a"), LongOption("a"), LongPaddedOption("a"),
      Run(" ", TELEGRAM_POLL_OPTION_LIMIT + 1) }
OptionsB == { ShortOption("b"), LongOption("b") }
OptionsC == { ShortOption("c"), Run(" ", 3) }
OptionsD == { ShortOption("d") }

\* Values of the `correct` field.
Designators ==
    { Run("A", 1), Run("B", 1), Run("C", 1), Run("D", 1),
      Run("a", 1), Run("b", 1), Run("c", 1), Run("d", 1),
      Run("Z", 1), << >>,
      Concat(Run(" ", 1), Concat(Run("c", 1), Run(" ", 1))) }

Explanations ==
    { << >>,
      Run("e", 40),
      Run("e", TELEGRAM_MESSAGE_LIMIT),
      Run("e", TELEGRAM_MESSAGE_LIMIT + 1) }

Questions ==
    { [id |-> 1, question |-> q, option_a |-> oa, option_b |-> ob,
       option_c |-> oc, option_d |-> od, correct |-> co, explanation |-> ex] :
        q \in QuestionTexts, oa \in OptionsA, ob \in OptionsB,
        oc \in OptionsC, od \in OptionsD, co \in Designators,
        ex \in Explanations }

\* The value of `question` before the fetch.
NoQuestion ==
    [id |-> 0, question |-> << >>, option_a |-> << >>, option_b |-> << >>,
     option_c |-> << >>, option_d |-> << >>, correct |-> << >>,
     explanation |-> << >>]

\* Quote texts of the fetched quote list: missing, at 150, over it, long.
QuoteTexts == { << >>, Run("m", 150), Run("l", 151), Run("x", 200) }

\* The quote lists of at most k quotes.
QuoteLists(k) == UNION { [1..n -> QuoteTexts] : n \in 0..k }

\* ------------------------------------------------------- pure functions

\* Mutant: the window's end taken as inclusive.
in_time_window_inclusive(hour) == 11 <= hour /\ hour <= 22

\* check_ist_time_window's test of the hour.
in_time_window(hour) == 11 <= hour /\ hour < 22

truncate_explanation(explanation, max_length) ==
    IF StrLen(explanation) <= max_length
    THEN explanation
    ELSE Concat(Slice(explanation, max_length - 50), Lit(EXPLANATION_MARKER))

\* Mutant: a correct_map without its lowercase keys.
correct_map_get_uppercase(key) ==
    CASE key = Run("A", 1) -> 0
      [] key = Run("B", 1) -> 1
      [] key = Run("C", 1) -> 2
      [] key = Run("D", 1) -> 3
      [] OTHER -> 0

\* correct_map.get(correct.strip(), 0)
correct_map_get(key) ==
    CASE key \in { Run("A", 1), Run("a", 1) } -> 0
      [] key \in { Run("B", 1), Run("b", 1) } -> 1
      [] key \in { Run("C", 1), Run("c", 1) } -> 2
      [] key \in { Run("D", 1), Run("d", 1) } -> 3
      [] OTHER -> 0

correct_index_of(q) == correct_map_get(Strip(q.correct))

options_of(q) == << q.option_a, q.option_b, q.option_c, q.option_d >>

RECURSIVE MaxOf(_)
MaxOf(S) ==
    LET x == CHOOSE y \in S : TRUE
    IN IF S = { x } THEN x
       ELSE LET m == MaxOf(S \ { x }) IN IF x > m THEN x ELSE m

max_option_length(q) ==
    MaxOf({ StrLen(options_of(q)[i]) : i \in 1..4 })

\* Mutant: the question limit compared with < instead of <=.
is_direct_poll_strict(q) ==
    /\ StrLen(q.question) < TELEGRAM_POLL_QUESTION_LIMIT
    /\ max_option_length(q) <= TELEGRAM_POLL_OPTION_LIMIT

\* CASE 1 of format_and_send_question.
is_direct_poll(q) ==
    /\ StrLen(q.question) <= TELEGRAM_POLL_QUESTION_LIMIT
    /\ max_option_length(q) <= TELEGRAM_POLL_OPTION_LIMIT

\* The hybrid path's question text and its message.
hybrid_q_text(q) ==
    IF StrLen(q.question) > TELEGRAM_MESSAGE_LIMIT
    THEN Concat(Slice(q.question, TELEGRAM_MESSAGE_LIMIT - 50), Lit(QUESTION_MARKER))
    ELSE q.question

question_message(q) == Concat(Lit(QUESTION_PREFIX), hybrid_q_text(q))

\* Mutant: the hybrid path leaving the options as they are.
hybrid_option_uncut(opt) == opt

\* The hybrid path's truncation of one option.
hybrid_option(opt) ==
    IF StrLen(opt) > TELEGRAM_POLL_OPTION_LIMIT
    THEN Concat(Slice(opt, TELEGRAM_POLL_OPTION_LIMIT - 3), Lit(ELLIPSIS))
    ELSE opt

hybrid_options(q) == [i \in 1..4 |-> hybrid_option(options_of(q)[i])]

\* The explanation message (the explanation is truthy).
explanation_message(explanation) ==
    Concat(Lit(EXPLANATION_PREFIX),
           IF StrLen(explanation) > TELEGRAM_MESSAGE_LIMIT
           THEN truncate_explanation(explanation, TELEGRAM_MESSAGE_LIMIT)
           ELSE explanation)

\* chr(65 + i), i counted from 0.
Letter(i) == << "A", "B", "C", "D" >>[i + 1]

\* send_telegram_poll: the question text as posted.
poll_question_text(question_text) ==
    LET t == Strip(question_text)
    IN IF StrLen(t) > TELEGRAM_POLL_QUESTION_LIMIT
       THEN Concat(Slice(t, TELEGRAM_POLL_QUESTION_LIMIT - 3), Lit(ELLIPSIS))
       ELSE t

\* Mutant: send_telegram_poll without the replacement of blank options.
poll_option_unsubstituted(i, opt) ==
    LET o2 == Strip(opt)
    IN IF StrLen(o2) > TELEGRAM_POLL_OPTION_LIMIT
       THEN Concat(Slice(o2, TELEGRAM_POLL_OPTION_LIMIT - 3), Lit(ELLIPSIS))
       ELSE o2

\* send_telegram_poll: option number i (from 0) as posted.
poll_option(i, opt) ==
    LET o1 == IF ~Truthy(opt) \/ ~Truthy(Strip(opt))
              THEN Concat(Lit(OPTION_WORD), Run(Letter(i), 1))
              ELSE opt
        o2 == Strip(o1)
    IN IF StrLen(o2) > TELEGRAM_POLL_OPTION_LIMIT
       THEN Concat(Slice(o2, TELEGRAM_POLL_OPTION_LIMIT - 3), Lit(ELLIPSIS))
       ELSE o2

poll_options(options) == [i \in 1..Len(options) |-> poll_option(i - 1, options[i])]

\* send_telegram_poll raises ValueError before posting.
poll_raises(question_text, options, correct_index) ==
    \/ ~Truthy(question_text)
    \/ ~Truthy(Strip(question_text))
    \/ Len(poll_options(options)) < 2
    \/ correct_index < 0
    \/ correct_index >= Len(poll_options(options))

poll_payload(question_text, options, correct_index) ==
    [chat_id |-> "TELEGRAM_CHANNEL_ID",
     question |-> poll_question_text(question_text),
     options |-> poll_options(options),
     type |-> "quiz",
     correct_option_id |-> correct_index]

message_payload(text) ==
    [chat_id |-> "TELEGRAM_CHANNEL_ID", text |-> text, parse_mode |-> "HTML",
     disable_web_page_preview |-> TRUE]

\* fetch_random_quote once the (shuffled) list is at hand.
RECURSIVE first_short_quote(_)
first_short_quote(quotes) ==
    IF quotes = << >> THEN None
    ELSE IF Truthy(Head(quotes)) /\ StrLen(Head(quotes)) <= 150
         THEN Head(quotes)
         ELSE first_short_quote(Tail(quotes))

\* Mutant: the long quote cut to 150 characters before the "..." is added.
select_quote_cut150(quotes) ==
    IF quotes = << >> THEN None
    ELSE IF first_short_quote(quotes) # None THEN first_short_quote(quotes)
    ELSE IF StrLen(quotes[1]) > 150
         THEN Concat(Slice(quotes[1], 150), Lit(ELLIPSIS))
         ELSE quotes[1]

select_quote(quotes) ==
    IF quotes = << >> THEN None
    ELSE IF first_short_quote(quotes) # None THEN first_short_quote(quotes)
    ELSE IF StrLen(quotes[1]) > 150
         THEN Concat(Slice(quotes[1], 147), Lit(ELLIPSIS))
         ELSE quotes[1]

\* random.shuffle: the orders the list may be left in.
Shuffles(quotes) ==
    { [i \in 1..Len(quotes) |-> quotes[p[i]]] :
        p \in { f \in [1..Len(quotes) -> 1..Len(quotes)] :
                  \A i, j \in 1..Len(quotes) : f[i] = f[j] => i = j } }

promo_message(quote) ==
    Concat(Lit(PROMO_HEAD),
           Concat(IF Truthy(quote)
                  THEN Concat(Lit(PROMO_QUOTE_OPEN),
                              Concat(quote, Lit(PROMO_QUOTE_CLOSE)))
                  ELSE << >>,
                  Lit(PROMO_TAGS)))

\* ----------------------------------------------------------------- state

VARIABLES
    pc,            \* where the run is
    env,           \* which configuration values are set
    current_hour,  \* the IST hour at which the run was invoked
    fetches,       \* GET requests made to APPS_SCRIPT_URL
    question,      \* the fetched question
    sent,          \* the requests posted to Telegram, in order, with outcome
    quotes,        \* the quote list fetched for the promotional message
    quote,         \* the quote chosen for it
    exit_status    \* the process's exit status; -1 while it runs

vars == << pc, env, current_hour, fetches, question, sent, quotes, quote, exit_status >>

Request(method, payload, ok) == [method |-> method, payload |-> payload, ok |-> ok]

Init ==
    /\ pc = "main"
    /\ env \in [EnvNames -> BOOLEAN]
    /\ current_hour \in Hours
    /\ fetches = 0
    /\ question = NoQuestion
    /\ sent = << >>
    /\ quotes = << >>
    /\ quote = None
    /\ exit_status = -1

\* sys.exit(status), or the run ending by an uncaught exception (status 1).
Exit(status) == pc' = "exit" /\ exit_status' = status

\* main, lines 350-361.
ValidateEnvironment ==
    /\ pc = "main"
    /\ IF \E v \in EnvNames : ~env[v] THEN Exit(1)
       ELSE pc' = "check_time" /\ UNCHANGED exit_status
    /\ UNCHANGED << env, current_hour, fetches, question, sent, quotes, quote >>

\* main, lines 363-366, with check_ist_time_window.
CheckTimeWindow ==
    /\ pc = "check_time"
    /\ IF in_time_window(current_hour)
       THEN pc' = "fetch" /\ UNCHANGED exit_status
       ELSE Exit(0)
    /\ UNCHANGED << env, current_hour, fetches, question, sent, quotes, quote >>

\* fetch_random_question: the request fails, or answers success = false or
\* without data (each caught at line 57 and ended by sys.exit(1)), or delivers
\* a question.
FetchRandomQuestion ==
    /\ pc = "fetch"
    /\ fetches' = fetches + 1
    /\ \/ /\ \E failure \in { "network", "timeout", "http_status", "success_false", "no_data" } :
               Exit(1)
          /\ UNCHANGED question
       \/ /\ \E q \in Questions : question' = q
          /\ pc' = "format"
          /\ UNCHANGED exit_status
    /\ UNCHANGED << env, current_hour, sent, quotes, quote >>

\* send_telegram_poll called with these arguments; `next` is where the caller
\* goes on when it returns.
SendTelegramPoll(question_text, options, correct_index, next) ==
    IF poll_raises(question_text, options, correct_index)
    THEN Exit(1) /\ UNCHANGED sent
    ELSE \E ok \in BOOLEAN :
            /\ sent' = Append(sent, Request("sendPoll",
                                poll_payload(question_text, options, correct_index), ok))
            /\ IF ok THEN pc' = next /\ UNCHANGED exit_status ELSE Exit(1)

\* Mutant: send_telegram_message swallowing the exception.
SendTelegramMessage_swallowed(text, next) ==
    \E ok \in BOOLEAN :
        /\ sent' = Append(sent, Request("sendMessage", message_payload(text), ok))
        /\ pc' = next /\ UNCHANGED exit_status

\* send_telegram_message called from the primary sequence.
SendTelegramMessage(text, next) ==
    \E ok \in BOOLEAN :
        /\ sent' = Append(sent, Request("sendMessage", message_payload(text), ok))
        /\ IF ok THEN pc' = next /\ UNCHANGED exit_status ELSE Exit(1)

\* format_and_send_question, CASE 1: lines 256-287.
SendDirectPoll ==
    /\ pc = "format"
    /\ is_direct_poll(question)
    /\ SendTelegramPoll(question.question, options_of(question),
                        correct_index_of(question), "explanation")
    /\ UNCHANGED << env, current_hour, fetches, question, quotes, quote >>

\* format_and_send_question, CASE 2: lines 256-280 and 302-315.
SendHybridQuestion ==
    /\ pc = "format"
    /\ ~is_direct_poll(question)
    /\ SendTelegramMessage(question_message(question), "hybrid_poll")
    /\ UNCHANGED << env, current_hour, fetches, question, quotes, quote >>

\* format_and_send_question, CASE 2: lines 317-327.
SendHybridPoll ==
    /\ pc = "hybrid_poll"
    /\ SendTelegramPoll(Lit(POLL_QUESTION), hybrid_options(question),
                        correct_index_of(question), "explanation")
    /\ UNCHANGED << env, current_hour, fetches, question, quotes, quote >>

\* format_and_send_question, lines 289-296 and 329-336.
SendExplanation ==
    /\ pc = "explanation"
    /\ Truthy(question.explanation)
    /\ SendTelegramMessage(explanation_message(question.explanation), "promo")
    /\ UNCHANGED << env, current_hour, fetches, question, quotes, quote >>

\* Mutant: the explanation skipped whether or not there is one.
SkipExplanation_always ==
    /\ pc = "explanation"
    /\ pc' = "promo"
    /\ UNCHANGED << env, current_hour, fetches, question, sent, quotes, quote, exit_status >>

SkipExplanation ==
    /\ pc = "explanation"
    /\ ~Truthy(question.explanation)
    /\ pc' = "promo"
    /\ UNCHANGED << env, current_hour, fetches, question, sent, quotes, quote, exit_status >>

\* fetch_random_quote, lines 118-131: the request fails (None is returned), or
\* a list of at most k quotes arrives and is shuffled.
FetchQuotes(k) ==
    /\ pc = "promo"
    /\ \/ /\ quote' = None
          /\ pc' = "promo_send"
          /\ UNCHANGED quotes
       \/ /\ \E response \in QuoteLists(k) : quotes' \in Shuffles(response)
          /\ pc' = "quote_select"
          /\ UNCHANGED quote
    /\ UNCHANGED << env, current_hour, fetches, question, sent, exit_status >>

\* fetch_random_quote, lines 126-142.
SelectQuote ==
    /\ pc = "quote_select"
    /\ quote' = select_quote(quotes)
    /\ pc' = "promo_send"
    /\ UNCHANGED << env, current_hour, fetches, question, sent, quotes, exit_status >>

\* Mutant: a failed promotional send ending the run in error.
SendPromotionalMessage_fatal ==
    /\ pc = "promo_send"
    /\ \E ok \in BOOLEAN :
          /\ sent' = Append(sent, Request("sendMessage",
                                         message_payload(promo_message(quote)), ok))
          /\ Exit(IF ok THEN 0 ELSE 1)
    /\ UNCHANGED << env, current_hour, fetches, question, quotes, quote >>

\* send_promotional_message, lines 155-177, and the end of main.
SendPromotionalMessage ==
    /\ pc = "promo_send"
    /\ \E ok \in BOOLEAN :
          sent' = Append(sent, Request("sendMessage",
                                       message_payload(promo_message(quote)), ok))
    /\ Exit(0)
    /\ UNCHANGED << env, current_hour, fetches, question, quotes, quote >>

Next ==
    \/ ValidateEnvironment
    \/ CheckTimeWindow
    \/ FetchRandomQuestion
    \/ SendDirectPoll
    \/ SendHybridQuestion
    \/ SendHybridPoll
    \/ SendExplanation
    \/ SkipExplanation
    \/ FetchQuotes(MaxRunQuotes)
    \/ SelectQuote
    \/ SendPromotionalMessage

Spec == Init /\ [][Next]_vars

\* The run at the entry of send_promotional_message, for the example
\* question of the documentation (a 19-character question, four short
\* options, correct = "B", no explanation) sent as a direct poll.
ExampleQuestion ==
    [id |-> 1, question |-> Run("q", 19), option_a |-> ShortOption("a"),
     option_b |-> ShortOption("b"), option_c |-> ShortOption("c"),
     option_d |-> ShortOption("d"), correct |-> Run("B", 1),
     explanation |-> << >>]

InitQuote ==
    /\ pc = "promo"
    /\ env = [v \in EnvNames |-> TRUE]
    /\ current_hour = 11
    /\ fetches = 1
    /\ question = ExampleQuestion
    /\ sent = << Request("sendPoll",
                         poll_payload(ExampleQuestion.question,
                                      options_of(ExampleQuestion),
                                      correct_index_of(ExampleQuestion)), TRUE) >>
    /\ quotes = << >>
    /\ quote = None
    /\ exit_status = -1

NextQuote ==
    \/ FetchQuotes(MaxQuotes)
    \/ SelectQuote
    \/ SendPromotionalMessage

\* The promotional step alone, over quote lists of up to MaxQuotes quotes.
SpecQuote == InitQuote /\ [][NextQuote]_vars

\* ------------------------------------------------------------ properties

IsPoll(e) == e.method = "sendPoll"
IsQuestionMessage(e) ==
    e.method = "sendMessage" /\ e.payload.text[1].c = QUESTION_PREFIX
IsExplanationMessage(e) ==
    e.method = "sendMessage" /\ e.payload.text[1].c = EXPLANATION_PREFIX
IsPromoMessage(e) ==
    e.method = "sendMessage" /\ e.payload.text[1].c = PROMO_HEAD
IsPrimary(e) == ~IsPromoMessage(e)

Polls == { i \in 1..Len(sent) : IsPoll(sent[i]) }
QuestionMessages == { i \in 1..Len(sent) : IsQuestionMessage(sent[i]) }
ExplanationMessages == { i \in 1..Len(sent) : IsExplanationMessage(sent[i]) }
PromoMessages == { i \in 1..Len(sent) : IsPromoMessage(sent[i]) }

\* A question was fetched and format_and_send_question is past its first send.
Dispatched == question # NoQuestion /\ pc # "format"

FitsPoll(q) ==
    /\ StrLen(q.question) <= 300
    /\ \A i \in 1..4 : StrLen(options_of(q)[i]) <= 100

\* An option as it stands in a posted poll: stripped of surrounding
\* whitespace, a blank one replaced by "Option A" .. "Option D".
Substituted(i, opt) ==
    IF Strip(opt) = << >>
    THEN Concat(Lit(OPTION_WORD), Run(<< "A", "B", "C", "D" >>[i], 1))
    ELSE Strip(opt)

\* An option cut to the option limit when longer.
Cut(opt) ==
    IF StrLen(opt) > 100 THEN Concat(Slice(opt, 97), Lit(ELLIPSIS)) ELSE opt

\* C1 as stated: a question within both poll limits is sent as exactly one
\* poll, whose prompt is the question text and whose options are the four
\* options verbatim, with nothing sent before it.
C1_Original ==
    (Dispatched /\ FitsPoll(question)) =>
        /\ Polls = { 1 }
        /\ sent[1].payload.question = question.question
        /\ sent[1].payload.options = options_of(question)

\* C1: a question within both poll limits whose text is not blank is sent as
\* exactly one poll, first of all requests; the prompt is the question text
\* stripped of surrounding whitespace and the options are the four options,
\* each stripped, a blank one replaced by "Option A".."Option D".  A blank
\* question text posts nothing and ends the run with status 1.
C1_DirectPoll ==
    (Dispatched /\ FitsPoll(question)) =>
        IF Strip(question.question) = << >>
        THEN sent = << >> /\ pc = "exit" /\ exit_status = 1
        ELSE /\ Polls = { 1 }
             /\ QuestionMessages = { }
             /\ sent[1].payload.question = Strip(question.question)
             /\ sent[1].payload.options =
                    [i \in 1..4 |-> Substituted(i, options_of(question)[i])]

C1_Witness ==
    /\ pc = "exit" /\ exit_status = 0
    /\ FitsPoll(question)
    /\ StrLen(question.question) = 300
    /\ question.option_a = PaddedOption("a")
    /\ Polls = { 1 }
    /\ sent[1].ok
    /\ sent[1].payload.options[1] = ShortOption("a")

\* The question message carries the question text: after its header comes the
\* question text, whole up to the message limit and its first 4046 characters
\* beyond it.
CarriesQuestion(text, q) ==
    LET k == IF StrLen(q) > 4096 THEN 4046 ELSE StrLen(q)
    IN /\ Slice(text, 17 + k) = Concat(Lit(QUESTION_PREFIX), Slice(q, k))
       /\ StrLen(q) <= 4096 => StrLen(text) = 17 + k

\* The order of the hybrid path: one question message first; a poll, with the
\* generic prompt, only second and only after the question message went
\* through, and then exactly one.
HybridOrder ==
    /\ QuestionMessages = { 1 }
    /\ CarriesQuestion(sent[1].payload.text, question.question)
    /\ Polls \subseteq { 2 }
    /\ ~sent[1].ok => Polls = { }
    /\ (sent[1].ok /\ pc # "hybrid_poll") =>
          /\ Polls = { 2 }
          /\ sent[2].payload.question = Lit(POLL_QUESTION)

\* C2 as stated: a question over either poll limit is sent as one question
\* message and then one poll with the generic prompt, whose options are the
\* four options, each cut to the option limit when longer.
C2_Original ==
    (Dispatched /\ ~FitsPoll(question)) =>
        /\ HybridOrder
        /\ \A p \in Polls :
              sent[p].payload.options = [i \in 1..4 |-> Cut(options_of(question)[i])]

\* C2: a question over either poll limit is sent as exactly one question
\* message and then exactly one poll with the generic prompt, in that order,
\* the poll never before or without the question message; the poll's options
\* are the four options, each cut to the option limit when longer and then
\* stripped of surrounding whitespace, a blank one replaced by
\* "Option A".."Option D".
C2_Hybrid ==
    (Dispatched /\ ~FitsPoll(question)) =>
        /\ HybridOrder
        /\ \A p \in Polls :
              sent[p].payload.options =
                  [i \in 1..4 |-> Substituted(i, Cut(options_of(question)[i]))]

C2_Witness ==
    /\ pc = "exit" /\ exit_status = 0
    /\ StrLen(question.question) = 301
    /\ question.option_a = LongPaddedOption("a")
    /\ question.option_c = Run(" ", 3)
    /\ QuestionMessages = { 1 } /\ Polls = { 2 }
    /\ StrLen(sent[2].payload.options[1]) = 99

\* The index the designator names, case-insensitively: A, B, C, D are 0, 1,
\* 2, 3 and anything else is 0.
DesignatedIndex(d) ==
    IF Len(d) = 1 /\ d[1].n = 1 /\ d[1].c \in { "B", "b", "C", "c", "D", "d" }
    THEN CASE d[1].c \in { "B", "b" } -> 1
           [] d[1].c \in { "C", "c" } -> 2
           [] d[1].c \in { "D", "d" } -> 3
    ELSE 0

\* C3 as stated: the poll's correct_option_id is the index the `correct`
\* value names, and 0 for every value that is not one of the eight letters.
C3_Original ==
    \A p \in Polls :
        sent[p].payload.correct_option_id = DesignatedIndex(question.correct)

\* C3: the poll's correct_option_id is the index named, case-insensitively,
\* by the `correct` value stripped of surrounding whitespace: A/a 0, B/b 1,
\* C/c 2, D/d 3, every other stripped value 0; it is always in 0..3.
C3_CorrectIndex ==
    \A p \in Polls :
        /\ sent[p].payload.correct_option_id = DesignatedIndex(Strip(question.correct))
        /\ sent[p].payload.correct_option_id \in 0..3

C3_Witness ==
    /\ Polls # { }
    /\ question.correct = Concat(Run(" ", 1), Concat(Run("c", 1), Run(" ", 1)))
    /\ \A p \in Polls : sent[p].payload.correct_option_id = 2

\* C4 as stated: an explanation longer than 4096 characters is sent cut, with
\* the truncation marker at its end, in a message of at most 4096 characters.
C4_Original ==
    \A m \in ExplanationMessages :
        StrLen(question.explanation) > 4096 =>
            LET text == sent[m].payload.text
            IN /\ text[Len(text)].c = EXPLANATION_MARKER
               /\ StrLen(text) <= 4096

\* C5: once the poll went through, a non-empty explanation is sent as exactly
\* one explanation message, right after the poll and before the promotional
\* message; with an empty explanation no explanation message is sent and the
\* promotional message is sent all the same.
C5_Explanation ==
    \A p \in Polls :
        sent[p].ok =>
            IF question.explanation # << >>
            THEN /\ ExplanationMessages \subseteq { p + 1 }
                 /\ pc # "explanation" => ExplanationMessages = { p + 1 }
                 /\ \A m \in PromoMessages : m > p + 1
            ELSE /\ ExplanationMessages = { }
                 /\ PromoMessages \subseteq { p + 1 }
                 /\ pc = "exit" => PromoMessages = { p + 1 }

C5_Witness ==
    /\ pc = "exit"
    /\ Polls = { 2 } /\ ExplanationMessages = { 3 } /\ PromoMessages = { 4 }
    /\ sent[3].ok

\* C6: a failed question fetch, or a failed primary send (question message,
\* poll, explanation message; a poll refused before it is posted included),
\* ends the run with status 1; nothing is retried and nothing is sent after
\* the failure, the promotional message included.
C6_Abort ==
    /\ fetches <= 1
    /\ Cardinality(Polls) <= 1
    /\ Cardinality(QuestionMessages) <= 1
    /\ Cardinality(ExplanationMessages) <= 1
    /\ \A i \in 1..Len(sent) :
          (IsPrimary(sent[i]) /\ ~sent[i].ok) =>
              /\ i = Len(sent)
              /\ pc = "exit" /\ exit_status = 1
    /\ (pc = "exit" /\ fetches = 1 /\ question = NoQuestion) =>
          exit_status = 1 /\ sent = << >>
    /\ (Dispatched /\ FitsPoll(question) /\ Strip(question.question) = << >>) =>
          pc = "exit" /\ exit_status = 1 /\ sent = << >>

C6_Witness ==
    /\ pc = "exit" /\ exit_status = 1
    /\ Len(sent) = 3
    /\ IsExplanationMessage(sent[3]) /\ ~sent[3].ok
    /\ sent[1].ok /\ sent[2].ok

\* Every primary send of the run went through.
PrimaryDone ==
    /\ \E p \in Polls : sent[p].ok
    /\ question.explanation # << >> => \E m \in ExplanationMessages : sent[m].ok

\* C7: when every primary send went through, the promotional message is sent
\* exactly once, as the last request, and the run ends with status 0 whether
\* or not the quote fetch and the promotional send went through.
C7_Promo ==
    /\ PromoMessages \subseteq { Len(sent) }
    /\ PromoMessages # { } => PrimaryDone /\ pc = "exit"
    /\ (pc = "exit" /\ PrimaryDone) =>
          PromoMessages = { Len(sent) } /\ exit_status = 0

C7_Witness ==
    /\ pc = "exit" /\ exit_status = 0
    /\ PrimaryDone
    /\ quote = None /\ quotes = << >>
    /\ PromoMessages = { Len(sent) }
    /\ ~sent[Len(sent)].ok

OutsideWindow == current_hour < 11 \/ current_hour >= 22

\* C8 as stated: a run invoked outside the window ends with status 0 without
\* a fetch and without sending anything.
C8_Original ==
    OutsideWindow =>
        /\ fetches = 0 /\ sent = << >>
        /\ pc = "exit" => exit_status = 0

\* C8: a run invoked outside the 11:00-22:00 window makes no fetch and sends
\* nothing; it ends with status 0 when the three configuration values are
\* set, and with status 1 when one is missing.
C8_TimeGate ==
    OutsideWindow =>
        /\ fetches = 0 /\ sent = << >>
        /\ pc \in { "main", "check_time", "exit" }
        /\ pc = "exit" =>
              exit_status = IF \A v \in EnvNames : env[v] THEN 0 ELSE 1

C8_Witness ==
    /\ pc = "exit" /\ exit_status = 0
    /\ current_hour = 22
    /\ \A v \in EnvNames : env[v]
    /\ fetches = 0 /\ sent = << >>

\* The promotional text with the fixed copy only, and the quote inside one
\* that has a quote.
HasQuote(text) == Len(text) > 2
QuoteOf(text) == SubSeq(text, 3, Len(text) - 2)
WellFormedPromo(text) ==
    /\ text[1] = Lit(PROMO_HEAD)[1]
    /\ text[Len(text)] = Lit(PROMO_TAGS)[1]
    /\ HasQuote(text) =>
          /\ text[2] = Lit(PROMO_QUOTE_OPEN)[1]
          /\ text[Len(text) - 1] = Lit(PROMO_QUOTE_CLOSE)[1]

\* C9 as stated: the quote in the promotional message is one of the fetched
\* quotes, unchanged, of at most 150 characters; when no fetched quote has at
\* most 150 characters the message has no quote.
C9_Original ==
    \A m \in PromoMessages :
        LET text == sent[m].payload.text
        IN /\ WellFormedPromo(text)
           /\ HasQuote(text) =>
                 /\ StrLen(QuoteOf(text)) <= 150
                 /\ \E i \in 1..Len(quotes) : quotes[i] = QuoteOf(text)
           /\ (\A i \in 1..Len(quotes) : StrLen(quotes[i]) > 150) => ~HasQuote(text)

\* The places of the fetched (shuffled) list holding a non-empty quote of at
\* most 150 characters.
ShortQuotes == { i \in 1..Len(quotes) : quotes[i] # << >> /\ StrLen(quotes[i]) <= 150 }

\* C9: the quote in the promotional message has at most 150 characters.  It
\* is the first non-empty fetched quote of at most 150 characters, unchanged,
\* when there is one; otherwise it is the first quote of the shuffled list
\* cut to its first 147 characters and "...".  The message has no quote only
\* when the fetch failed, the list is empty, or no fetched quote is short and
\* the first of the shuffled list is empty.
C9_Quote ==
    \A m \in PromoMessages :
        LET text == sent[m].payload.text
        IN /\ WellFormedPromo(text)
           /\ HasQuote(text) =>
                 /\ StrLen(QuoteOf(text)) <= 150
                 /\ IF ShortQuotes # { }
                    THEN \E i \in ShortQuotes :
                            /\ \A j \in ShortQuotes : i <= j
                            /\ QuoteOf(text) = quotes[i]
                    ELSE /\ StrLen(quotes[1]) > 150
                         /\ QuoteOf(text) = Concat(Slice(quotes[1], 147), Lit(ELLIPSIS))
           /\ ~HasQuote(text) =>
                 \/ quotes = << >>
                 \/ ShortQuotes = { } /\ quotes[1] = << >>

C9_Witness ==
    /\ pc = "exit"
    /\ quotes = << Run("l", 151), Run("x", 200) >>
    /\ PromoMessages = { Len(sent) }
    /\ QuoteOf(sent[Len(sent)].payload.text) = Concat(Run("l", 147), Lit(ELLIPSIS))

\* The options send_telegram_poll was called with.
PollArguments ==
    IF FitsPoll(question) THEN options_of(question)
    ELSE [i \in 1..4 |-> Cut(options_of(question)[i])]

\* C10: every posted poll has a non-empty prompt of at most 300 characters,
\* exactly four options, each non-empty and of at most 100 characters, an
\* empty or blank option given to send_telegram_poll standing as
\* "Option A".."Option D", and a correct_option_id in 0..3; a blank question
\* text on the direct-poll path posts no poll and ends the run in error.
C10_WellFormedPoll ==
    /\ \A p \in Polls :
          LET poll == sent[p].payload
          IN /\ poll.question # << >>
             /\ StrLen(poll.question) <= 300
             /\ Len(poll.options) = 4
             /\ \A i \in 1..4 :
                   /\ poll.options[i] # << >>
                   /\ StrLen(poll.options[i]) <= 100
                   /\ Strip(PollArguments[i]) = << >> =>
                         poll.options[i] =
                             Concat(Lit(OPTION_WORD), Run(<< "A", "B", "C", "D" >>[i], 1))
             /\ poll.correct_option_id \in 0..3
    /\ (Dispatched /\ FitsPoll(question) /\ Strip(question.question) = << >>) =>
          Polls = { } /\ pc = "exit" /\ exit_status = 1

C10_Witness ==
    /\ Polls = { 1 }
    /\ question.option_a = << >>
    /\ question.option_c = Run(" ", 3)
    /\ sent[1].payload.options[1] = Concat(Lit(OPTION_WORD), Run("A", 1))
    /\ sent[1].payload.options[3] = Concat(Lit(OPTION_WORD), Run("C", 1))
====
